---- MODULE Spec2Model ----
(***************************************************************************)
(* Question-generation pipeline of the GENEM backend: the GROQ credential  *)
(* rotator (app/core/groq_token_manager.py, app/core/config.py), the       *)
(* completion client and its retrying invoker (app/core/groq_client.py,    *)
(* app/core/question_generator.py) and the LangGraph generation workflow   *)
(* (app/core/question_generator.py).                                       *)
(*                                                                         *)
(* Strings are sequences of one-character strings, so that strip, split    *)
(* and comparison are computed as Python computes them.  Python's None is  *)
(* the value None below.                                                   *)
(***************************************************************************)
EXTENDS Integers, Sequences, FiniteSets, TLC

VARIABLES
    \* ---- Settings (app/core/config.py)
    GROQ_API_KEY,          \* Optional[str]
    GROQ_API_TOKENS,       \* Optional[str], comma separated
    \* ---- module singleton and GroqTokenManager fields
    groq_token_manager,    \* "None" | "installed"
    ctor_error,            \* None or the ValueError message raised on construction
    tokens,                \* self.tokens
    token_cycle,           \* position of itertools.cycle(self.tokens): index (0-based) of the next token
    current_token,         \* self.current_token
    lock,                  \* self.lock: 0 when free, else the holder
    token_usage_count,     \* self.token_usage_count
    \* ---- callers of get_next_token (OS threads)
    thr,                   \* thread -> [pc, tmp, ret, calls, since]
    call_log,              \* tokens returned by get_next_token, in order of return
    \* ---- _call_llm_with_retry, one activation per request
    llm,                   \* request -> [pc, attempt, max_retries, token, used, last, error, result, calls, usage0, runs]
    \* ---- QuestionGeneratorAgent and the state of each generate_question run
    search_tool,           \* self.search_tool: "None" | "tool"
    wf,                    \* request -> QuestionGenerationState plus the position in the graph
    \* ---- the exams collection (app/services/exam.py) and the last service call
    exams,                 \* exam id -> stored document, or NoExam
    last_call,             \* [op, exam_id, outcome] of the last ExamService call
    exam_reqs,             \* worker -> the ExamService call it is in, between its read and its write
    \* ---- one completion text handed to _parse_generated_question, plain and fenced
    response_content,      \* the JSON draft text
    fence,                 \* the code-fence markers put around it
    parsed                 \* [plain, fenced]: what the parse gave for each, or NotParsed

rotVars == <<groq_token_manager, ctor_error, tokens, token_cycle, current_token,
             lock, token_usage_count>>
cfgVars == <<GROQ_API_KEY, GROQ_API_TOKENS>>
thrVars == <<thr, call_log>>
reqVars == <<llm, search_tool, wf>>
examVars == <<exams, last_call, exam_reqs>>
parseVars == <<response_content, fence, parsed>>
vars == <<cfgVars, examVars, parseVars, rotVars, thrVars, reqVars>>

----------------------------------------------------------------------------
(* Bounds *)
MaxKeyLen == 2          \* longest GROQ_API_KEY tried
MaxTokensLen == 3       \* longest GROQ_API_TOKENS tried
MaxSeqCalls == 4        \* get_next_token calls of the single caller
NumThreads == 2         \* concurrent callers of get_next_token
MaxThreadCalls == 2     \* get_next_token calls per concurrent caller
MaxRetries == 3         \* largest max_retries a direct caller passes
MaxInvocations == 2     \* _call_llm_with_retry invocations made one after another
MaxRefinements == 1     \* largest max_refinements a caller passes
MaxPad == 1             \* blanks around a search result
NumReqs == 2            \* generation requests in flight together
MaxQuestionCount == 2   \* largest question_count of a created exam
MaxRefineRuns == 2      \* executions of refinement_node followed in one run
MaxJsonLen == 4         \* longest JSON draft text tried

(* Program constants *)
NumAlternatives == 5    \* GeneratedQuestionCreate.alternatives: min_items = max_items = 5
MinUsefulLen == 10      \* len(search_results.strip()) > 10
DefaultMaxRetries == 3  \* max_retries: int = 3
MaskedLen == 8          \* self.current_token[-8:]

None == <<"None">>
KeyChars == {"a", " "}
TokChars == {"a", "b", " ", ","}
PoolChars == {"b", "c", ","}

Strings(chars, n) == UNION {[1..k -> chars] : k \in 0..n}

----------------------------------------------------------------------------
(* Python string and list helpers *)

Truthy(s) == s # None /\ s # <<>>

\* the characters str.strip() removes
Whitespace == {" ", "\n"}

RECURSIVE lstrip(_)
lstrip(s) == IF s # <<>> /\ Head(s) \in Whitespace THEN lstrip(Tail(s)) ELSE s

RECURSIVE rstrip(_)
rstrip(s) == IF s # <<>> /\ s[Len(s)] \in Whitespace THEN rstrip(SubSeq(s, 1, Len(s) - 1)) ELSE s

strip(s) == rstrip(lstrip(s))

\* s.split(","): "" gives [""], "a,,b" gives ["a", "", "b"]
RECURSIVE split(_)
split(s) ==
    IF \E i \in 1..Len(s) : s[i] = ","
    THEN LET i == CHOOSE j \in 1..Len(s) : s[j] = "," /\ \A k \in 1..(j - 1) : s[k] # ","
         IN  <<SubSeq(s, 1, i - 1)>> \o split(SubSeq(s, i + 1, Len(s)))
    ELSE <<s>>

\* [token.strip() for token in xs if token.strip()]
RECURSIVE StripNonBlank(_)
StripNonBlank(xs) ==
    IF xs = <<>> THEN <<>>
    ELSE IF strip(Head(xs)) # <<>> THEN <<strip(Head(xs))>> \o StripNonBlank(Tail(xs))
         ELSE StripNonBlank(Tail(xs))

Range(xs) == {xs[i] : i \in 1..Len(xs)}

\* the seen/unique_tokens loop: first occurrences, in order
RECURSIVE unique_tokens(_, _)
unique_tokens(xs, seen) ==
    IF xs = <<>> THEN <<>>
    ELSE IF Head(xs) \in seen THEN unique_tokens(Tail(xs), seen)
         ELSE <<Head(xs)>> \o unique_tokens(Tail(xs), seen \cup {Head(xs)})

\* Settings.get_groq_tokens
get_groq_tokens(key, toks) ==
    LET primary == IF Truthy(key) THEN <<key>> ELSE <<>>
        additional_tokens == IF Truthy(toks) THEN StripNonBlank(split(toks)) ELSE <<>>
    IN  unique_tokens(primary \o additional_tokens, {})

----------------------------------------------------------------------------
(* GroqTokenManager *)

\* self.tokens of GroqTokenManager.__init__
InitTokens(given) == StripNonBlank(given)

InitError_unchecked(given) ==
    IF given = <<>> THEN <<"Lista de tokens nao pode estar vazia">> ELSE None
\* the ValueError of GroqTokenManager.__init__, or None
InitError(given) ==
    IF given = <<>> THEN <<"Lista de tokens nao pode estar vazia">>
    ELSE IF InitTokens(given) = <<>> THEN <<"Nenhum token valido fornecido">>
    ELSE None

\* next(self.token_cycle): the element the cycle yields at position pos
CycleNext(toks, pos) == toks[pos + 1]

CycleAdvance_stuck(pos, n) == pos
\* the position of the cycle after one next()
CycleAdvance(pos, n) == (pos + 1) % n

\* get_token_stats()["total_tokens"] and ["total_usage"]
total_tokens == Len(tokens)

RECURSIVE SumOver(_, _)
SumOver(f, S) == IF S = {} THEN 0
                 ELSE LET x == CHOOSE y \in S : TRUE IN f[x] + SumOver(f, S \ {x})

total_usage == SumOver(token_usage_count, DOMAIN token_usage_count)

\* s[-n:]
Suffix(s, n) == IF Len(s) <= n THEN s ELSE SubSeq(s, Len(s) - n + 1, Len(s))

\* GroqTokenManager.get_token_stats, the dict it returns
get_token_stats ==
    [total_tokens |-> total_tokens,
     total_usage |-> total_usage,
     usage_per_token |-> token_usage_count,
     current_token_masked |->
         IF Truthy(current_token)
         THEN <<".", ".", ".">> \o Suffix(current_token, MaskedLen)
         ELSE None]

\* get_groq_token_manager: the singleton is built on first use from the settings
get_groq_token_manager ==
    /\ groq_token_manager = "None"
    /\ ctor_error = None
    /\ LET groq_tokens == get_groq_tokens(GROQ_API_KEY, GROQ_API_TOKENS) IN
       IF groq_tokens = <<>>
       THEN /\ ctor_error' = <<"Nenhum token GROQ configurado">>
            /\ UNCHANGED <<groq_token_manager, tokens, token_cycle, current_token,
                           lock, token_usage_count>>
       ELSE IF InitError(groq_tokens) # None
       THEN /\ ctor_error' = InitError(groq_tokens)
            /\ UNCHANGED <<groq_token_manager, tokens, token_cycle, current_token,
                           lock, token_usage_count>>
       ELSE /\ groq_token_manager' = "installed"
            /\ tokens' = InitTokens(groq_tokens)
            /\ token_cycle' = 0
            /\ current_token' = None
            /\ lock' = 0
            /\ token_usage_count' = [t \in Range(InitTokens(groq_tokens)) |-> 0]
            /\ UNCHANGED ctor_error
    /\ UNCHANGED <<cfgVars, examVars, parseVars, thrVars, reqVars>>

----------------------------------------------------------------------------
(* get_next_token, statement by statement, for a caller t *)

LockFree_none(t) == TRUE
\* threading.Lock: `with self.lock` enters only when no one holds it
LockFree(t) == lock = 0

\* the caller enters get_next_token and takes the lock
Acquire(t, maxCalls) ==
    /\ groq_token_manager = "installed"
    /\ thr[t].pc = "idle"
    /\ thr[t].calls < maxCalls
    /\ LockFree(t)
    /\ lock' = t
    /\ thr' = [thr EXCEPT ![t].pc = "next"]
    /\ UNCHANGED <<cfgVars, examVars, parseVars, groq_token_manager, ctor_error, tokens, token_cycle,
                   current_token, token_usage_count, call_log, reqVars>>

\* self.current_token = next(self.token_cycle)
Advance(t) ==
    /\ thr[t].pc = "next"
    /\ current_token' = CycleNext(tokens, token_cycle)
    /\ token_cycle' = CycleAdvance(token_cycle, Len(tokens))
    /\ thr' = [thr EXCEPT ![t].pc = "read"]
    /\ UNCHANGED <<cfgVars, examVars, parseVars, groq_token_manager, ctor_error, tokens, lock,
                   token_usage_count, call_log, reqVars>>

\* self.token_usage_count[self.current_token] += 1, the load
ReadCount(t) ==
    /\ thr[t].pc = "read"
    /\ thr' = [thr EXCEPT ![t].pc = "write", ![t].tmp = token_usage_count[current_token]]
    /\ UNCHANGED <<cfgVars, examVars, parseVars, rotVars, call_log, reqVars>>

\* self.token_usage_count[self.current_token] += 1, the store
WriteCount(t) ==
    /\ thr[t].pc = "write"
    /\ token_usage_count' = [token_usage_count EXCEPT ![current_token] = thr[t].tmp + 1]
    /\ thr' = [thr EXCEPT ![t].pc = "return"]
    /\ UNCHANGED <<cfgVars, examVars, parseVars, groq_token_manager, ctor_error, tokens, token_cycle,
                   current_token, lock, call_log, reqVars>>

\* return self.current_token, leaving the with block
Return(t) ==
    /\ thr[t].pc = "return"
    /\ thr' = [thr EXCEPT ![t].pc = "idle", ![t].ret = current_token,
                          ![t].calls = @ + 1, ![t].since = @ + 1]
    /\ call_log' = Append(call_log, current_token)
    /\ lock' = IF lock = t THEN 0 ELSE lock
    /\ UNCHANGED <<cfgVars, examVars, parseVars, groq_token_manager, ctor_error, tokens, token_cycle,
                   current_token, token_usage_count, reqVars>>

Threads == 1..NumThreads

ResetCounts_current(toks) ==
    [token \in Range(toks) |-> IF token = current_token THEN 0 ELSE token_usage_count[token]]
\* {token: 0 for token in self.tokens}
ResetCounts(toks) == [token \in Range(toks) |-> 0]

\* reset_stats, called by t: one assignment under the lock; every caller's
\* count of get_next_token calls since the last reset starts again
reset_stats(t) ==
    /\ groq_token_manager = "installed"
    /\ thr[t].pc = "idle"
    /\ LockFree(t)
    /\ token_usage_count' = ResetCounts(tokens)
    /\ thr' = [u \in DOMAIN thr |-> [thr[u] EXCEPT !.since = 0]]
    /\ UNCHANGED <<cfgVars, examVars, parseVars, groq_token_manager, ctor_error, tokens,
                   token_cycle, current_token, lock, call_log, reqVars>>

\* generation requests (coroutines of the event loop)
Reqs == 1..NumReqs

\* no answer received yet, no exception raised
NoReply == [kind |-> "none", content |-> None, at |-> 0 - 1]
NoError == [msg |-> None, at |-> 0 - 1]

LlmIdle == [pc |-> "idle", attempt |-> 0, max_retries |-> 0, token |-> None,
            used |-> <<>>, last |-> NoReply, error |-> NoError, result |-> None,
            calls |-> 0, usage0 |-> 0, runs |-> 0]

ThreadsInit == [t \in Threads |-> [pc |-> "idle", tmp |-> 0, ret |-> None, calls |-> 0,
                                   since |-> 0]]

\* generated_question = None: no draft
NoDraft == [none |-> TRUE]

\* no result returned yet
NoResult == [success |-> FALSE, error |-> None, generated_question |-> NoDraft,
             refinement_count |-> 0, raised |-> FALSE]

\* the state a request has before generate_question builds its initial state
WfIdle == [node |-> "idle", stage |-> "context_research", context_research |-> <<>>,
           generated_question |-> NoDraft, validation_feedback |-> <<>>,
           refinement_count |-> 0, max_refinements |-> 0, error_message |-> None,
           route |-> "none", result |-> NoResult,
           research |-> "none", generation |-> "none", validation |-> "none",
           parse_failed |-> FALSE, refine_runs |-> 0, search_calls |-> 0]

\* ---- exams collection

\* every call reads and writes the one document its exam_id names
ExamIds == {1}
Users == {"u1", "u2"}

\* no document with this id
NoExam == [absent |-> TRUE]

\* no ExamService call made yet
NoCall == [op |-> "none", exam_id |-> 0, outcome |-> "none"]

\* server workers that serve requests on the same collection
Workers == {1, 2}

\* a worker that is in no ExamService call
NoRequest == [pc |-> "idle", op |-> "none", exam_id |-> 0, update_fields |-> <<>>]

ExamInit ==
    /\ exams = [e \in ExamIds |-> NoExam]
    /\ last_call = NoCall
    /\ exam_reqs = [w \in Workers |-> NoRequest]

\* ---- _parse_generated_question on one text

NotParsed == [done |-> FALSE, ok |-> FALSE, error |-> None, draft |-> NoDraft]
NoFence == [lead |-> <<>>, open |-> <<>>, gap |-> <<>>, close |-> <<>>, trail |-> <<>>]

ParseInit ==
    /\ response_content = <<>>
    /\ fence = NoFence
    /\ parsed = [plain |-> NotParsed, fenced |-> NotParsed]

RotInit ==
    /\ groq_token_manager = "None"
    /\ ctor_error = None
    /\ tokens = <<>>
    /\ token_cycle = 0
    /\ current_token = None
    /\ lock = 0
    /\ token_usage_count = <<>>
    /\ thr = ThreadsInit
    /\ call_log = <<>>
    /\ llm = [r \in Reqs |-> LlmIdle]
    /\ wf = [r \in Reqs |-> WfIdle]

----------------------------------------------------------------------------
(* SpecConfig: any configuration, the singleton built from it, one caller *)

InitConfig ==
    /\ GROQ_API_KEY \in {None} \cup Strings(KeyChars, MaxKeyLen)
    /\ GROQ_API_TOKENS \in {None} \cup Strings(TokChars, MaxTokensLen)
    /\ RotInit
    /\ ExamInit
    /\ ParseInit
    /\ search_tool = "tool"

NextConfig ==
    \/ get_groq_token_manager
    \/ Acquire(1, MaxSeqCalls)
    \/ Advance(1)
    \/ ReadCount(1)
    \/ WriteCount(1)
    \/ Return(1)

SpecConfig == InitConfig /\ [][NextConfig]_vars

----------------------------------------------------------------------------
(* SpecStats: get_next_token and reset_stats called one after another *)

NextStats ==
    \/ get_groq_token_manager
    \/ Acquire(1, MaxSeqCalls)
    \/ Advance(1)
    \/ ReadCount(1)
    \/ WriteCount(1)
    \/ Return(1)
    \/ reset_stats(1)

SpecStats == InitConfig /\ [][NextStats]_vars

----------------------------------------------------------------------------
(* SpecRot: a pool of one to three credentials, concurrent callers *)

InitRot ==
    /\ GROQ_API_KEY = <<"a">>
    /\ GROQ_API_TOKENS \in {None} \cup Strings(PoolChars, MaxTokensLen)
    /\ RotInit
    /\ ExamInit
    /\ ParseInit
    /\ search_tool = "tool"

NextRot ==
    \/ get_groq_token_manager
    \/ \E t \in Threads : Acquire(t, MaxThreadCalls)
    \/ \E t \in Threads : Advance(t)
    \/ \E t \in Threads : ReadCount(t)
    \/ \E t \in Threads : WriteCount(t)
    \/ \E t \in Threads : Return(t)

SpecRot == InitRot /\ [][NextRot]_vars

----------------------------------------------------------------------------
(* GroqClient.chat_completion and QuestionGeneratorAgent._call_llm_with_retry *)

\* what the completion endpoint can answer to one request
Failures == {"http", "timeout", "transport", "nochoices"}

Outcomes(contents) ==
    {[kind |-> "ok", content |-> c] : c \in contents}
        \cup {[kind |-> k, content |-> None] : k \in Failures}

\* str(e) of the exception an unsuccessful attempt ends with
ErrorMsg(kind) ==
    CASE kind = "http"      -> <<"Erro Groq status: body">>
      [] kind = "timeout"   -> <<"Timeout na requisicao para Groq">>
      [] kind = "transport" -> <<"httpx transport error">>
      [] kind = "nochoices" -> <<"Resposta invalida do Groq">>

\* get_next_token as one step: coroutines of the event loop do not interleave in it
GetNextToken ==
    /\ current_token' = CycleNext(tokens, token_cycle)
    /\ token_cycle' = CycleAdvance(token_cycle, Len(tokens))
    /\ token_usage_count' =
           [token_usage_count EXCEPT ![CycleNext(tokens, token_cycle)] = @ + 1]
    /\ UNCHANGED <<groq_token_manager, ctor_error, tokens, lock>>

get_current_groq_token_norotate == UNCHANGED rotVars
\* token = get_current_groq_token(), on an installed manager
get_current_groq_token == GetNextToken

refresh_token_rotates == GetNextToken
\* _refresh_token: logs only
refresh_token == UNCHANGED rotVars

NotLastAttempt_always(attempt, max_retries) == attempt < max_retries
\* if attempt < max_retries - 1
NotLastAttempt(attempt, max_retries) == attempt < max_retries - 1

\* the except block of _call_llm_with_retry, for the activation rec of request r
AttemptFailed(r, rec, e) ==
    IF NotLastAttempt(rec.attempt, rec.max_retries)
    THEN /\ refresh_token
         /\ llm' = [llm EXCEPT ![r] = [rec EXCEPT !.pc = "sleep"]]
    ELSE /\ UNCHANGED rotVars
         /\ llm' = [llm EXCEPT ![r] = [rec EXCEPT !.pc = "raised", !.error = e]]

\* the activation has ended: it returned a message or raised
Ended(l) == l.pc \in {"returned", "raised"}

\* a fresh activation of _call_llm_with_retry(messages, max_retries)
Activation(r, max_retries) ==
    [LlmIdle EXCEPT !.pc = IF 0 < max_retries THEN "call" ELSE "returned",
                    !.max_retries = max_retries,
                    !.usage0 = total_usage,
                    !.runs = llm[r].runs + 1]

\* a direct call of _call_llm_with_retry with max_retries chosen by the caller
Invoke(r) ==
    /\ wf[r].node = "idle"
    /\ llm[r].pc \in {"idle", "returned", "raised"}
    /\ llm[r].runs < MaxInvocations
    /\ \E k \in 1..MaxRetries : llm' = [llm EXCEPT ![r] = Activation(r, k)]
    /\ UNCHANGED <<cfgVars, examVars, parseVars, rotVars, thrVars, search_tool, wf>>

\* chat_completion up to the await of client.post: the token is taken first
ChatSend(r) ==
    /\ llm[r].pc = "call"
    /\ groq_token_manager = "installed" \/ ctor_error # None
    /\ LET rec == [llm[r] EXCEPT !.calls = @ + 1] IN
       IF ctor_error # None
       THEN AttemptFailed(r, [rec EXCEPT !.last = [kind |-> "config", content |-> None,
                                                   at |-> rec.attempt]],
                          [msg |-> ctor_error, at |-> rec.attempt])
       ELSE /\ get_current_groq_token
            /\ llm' = [llm EXCEPT ![r] = [rec EXCEPT !.pc = "await",
                                                     !.token = current_token',
                                                     !.used = Append(@, current_token')]]
    /\ UNCHANGED <<cfgVars, examVars, parseVars, thrVars, search_tool, wf>>

\* the answer to the request, and what _call_llm_with_retry does with it
ChatReply(r, contents) ==
    /\ llm[r].pc = "await"
    /\ \E o \in Outcomes(contents) :
         LET rec == [llm[r] EXCEPT !.last = [kind |-> o.kind, content |-> o.content,
                                             at |-> llm[r].attempt]] IN
         IF o.kind = "ok"
         THEN /\ llm' = [llm EXCEPT ![r] = [rec EXCEPT !.pc = "returned",
                                                       !.result = o.content]]
              /\ UNCHANGED rotVars
         ELSE AttemptFailed(r, rec, [msg |-> ErrorMsg(o.kind), at |-> rec.attempt])
    /\ UNCHANGED <<cfgVars, examVars, parseVars, thrVars, search_tool, wf>>

\* asyncio.sleep(1) is over: the for loop goes to its next attempt, or runs out
SleepDone(r) ==
    /\ llm[r].pc = "sleep"
    /\ llm' = [llm EXCEPT ![r].attempt = @ + 1,
                          ![r].pc = IF llm[r].attempt + 1 < llm[r].max_retries
                                    THEN "call" ELSE "returned"]
    /\ UNCHANGED <<cfgVars, examVars, parseVars, rotVars, thrVars, search_tool, wf>>

----------------------------------------------------------------------------
(* SpecRetry: _call_llm_with_retry called directly, one call after another *)

RetryContents == {<<"resposta 1">>, <<"resposta 2">>}

InitRetry ==
    /\ GROQ_API_KEY = <<"a">>
    /\ GROQ_API_TOKENS \in {None} \cup Strings(PoolChars, MaxTokensLen)
    /\ RotInit
    /\ ExamInit
    /\ ParseInit
    /\ search_tool = "tool"

NextRetry ==
    \/ get_groq_token_manager
    \/ Invoke(1)
    \/ ChatSend(1)
    \/ ChatReply(1, RetryContents)
    \/ SleepDone(1)

SpecRetry == InitRetry /\ [][NextRetry]_vars

----------------------------------------------------------------------------
(* SpecConc: several requests in _call_llm_with_retry together; they interleave
   at the await of the completion call and at the backoff sleep *)

ConcContents == {<<"resposta">>}

\* a stage of request r calls _call_llm_with_retry(messages): max_retries = 3
InvokeDefault(r) ==
    /\ wf[r].node = "idle"
    /\ llm[r].pc = "idle"
    /\ llm' = [llm EXCEPT ![r] = Activation(r, DefaultMaxRetries)]
    /\ UNCHANGED <<cfgVars, examVars, parseVars, rotVars, thrVars, search_tool, wf>>

InitConc ==
    /\ GROQ_API_KEY = <<"a">>
    /\ GROQ_API_TOKENS \in {<<"b">>, <<"b", ",", "c">>}
    /\ RotInit
    /\ ExamInit
    /\ ParseInit
    /\ search_tool = "tool"

NextConc ==
    \/ get_groq_token_manager
    \/ \E r \in Reqs : InvokeDefault(r)
    \/ \E r \in Reqs : ChatSend(r)
    \/ \E r \in Reqs : ChatReply(r, ConcContents)
    \/ \E r \in Reqs : SleepDone(r)

SpecConc == InitConc /\ [][NextConc]_vars

----------------------------------------------------------------------------
(* _parse_generated_question and the GeneratedQuestionCreate schema *)

Missing == <<"missing">>      \* the key is absent from the JSON object
Null == <<"null">>            \* the value is JSON null
IsStr(v) == v # Missing /\ v # Null

UpperChar(c) ==
    CASE c = "a" -> "A" [] c = "b" -> "B" [] c = "c" -> "C" [] c = "d" -> "D"
      [] c = "e" -> "E" [] c = "f" -> "F" [] OTHER -> c

\* str.upper()
upper(str) == [i \in 1..Len(str) |-> UpperChar(str[i])]

ValidLetters == {<<"A">>, <<"B">>, <<"C">>, <<"D">>, <<"E">>}

\* a completion text is described by the shape of what is left of it once the
\* code-fence markers are removed, and by the object json.loads decodes from
\* its first balanced {...}
Shapes == {"nobrace", "unbalanced", "invalid", "object"}

\* isCorrect=(alt["letter"].upper() == correct_letter)
IsCorrect(letter, correct_letter) == upper(letter) = correct_letter

\* the alternatives comprehension: AlternativeCreate(letter, text, isCorrect)
MakeAlternatives(alts, correct_letter) ==
    [i \in 1..Len(alts) |->
        [letter |-> alts[i].letter, text |-> alts[i].text,
         isCorrect |-> IsCorrect(alts[i].letter, correct_letter)]]

\* the exception building one AlternativeCreate ends with, or None
AltError(alt) ==
    IF alt.letter = Missing THEN <<"KeyError: letter">>
    ELSE IF alt.text = Missing THEN <<"KeyError: text">>
    ELSE IF alt.letter = Null THEN <<"AttributeError: upper">>
    ELSE IF Len(alt.letter) < 1 \/ alt.text = Null \/ Len(alt.text) < 1
         THEN <<"ValidationError: AlternativeCreate">>
    ELSE None

\* the exception the body of _parse_generated_question ends with, or None
ParseError(content) ==
    CASE content.shape = "nobrace" -> <<"Nenhum JSON encontrado na resposta">>
      [] content.shape \in {"unbalanced", "invalid"} -> <<"JSONDecodeError">>
      [] OTHER ->
         LET d == content.data IN
         IF d.correct_alternative = Missing THEN <<"KeyError: correct_alternative">>
         ELSE IF d.correct_alternative = Null THEN <<"AttributeError: upper">>
         ELSE IF d.alternatives = Missing THEN <<"KeyError: alternatives">>
         ELSE IF \E i \in 1..Len(d.alternatives) : AltError(d.alternatives[i]) # None
              THEN AltError(d.alternatives[
                       CHOOSE i \in 1..Len(d.alternatives) :
                           /\ AltError(d.alternatives[i]) # None
                           /\ \A j \in 1..(i - 1) : AltError(d.alternatives[j]) = None])
         ELSE IF d.title = Missing THEN <<"KeyError: title">>
         ELSE IF d.context = Missing THEN <<"KeyError: context">>
         ELSE IF d.rationale = Missing THEN <<"KeyError: rationale">>
         ELSE IF d.title = Null \/ d.context = Null \/ d.rationale = Null
              THEN <<"ValidationError: GeneratedQuestionData">>
         ELSE None

\* the GeneratedQuestionData a successful parse returns
ParsedDraft(content) ==
    LET d == content.data IN
    [title |-> d.title, context |-> d.context,
     alternatives |-> MakeAlternatives(d.alternatives, upper(d.correct_alternative)),
     correct_alternative |-> d.correct_alternative,
     rationale |-> d.rationale]

\* GeneratedQuestionCreate(...) validates: title, correctAlternative, rationale
\* non-empty, correctAlternative one of A..E when uppercased, five alternatives
SchemaAccepts(g) ==
    /\ Len(g.title) >= 1
    /\ Len(g.correct_alternative) >= 1
    /\ upper(g.correct_alternative) \in ValidLetters
    /\ Len(g.alternatives) = NumAlternatives
    /\ Len(g.rationale) >= 1

\* the GeneratedQuestionCreate built from the draft g
CreationRecord(g) ==
    [title |-> g.title, context |-> g.context,
     correctAlternative |-> upper(g.correct_alternative),
     alternatives |-> g.alternatives, rationale |-> g.rationale]

(* Completion texts tried *)

Alt(letter) == [letter |-> letter, text |-> <<"t">>]
BaseAlts == <<Alt(<<"A">>), Alt(<<"B">>), Alt(<<"C">>), Alt(<<"D">>), Alt(<<"E">>)>>
LetterVals == {<<"A">>, <<"e">>, <<"F">>, <<>>, Missing, Null}

AltLists ==
    {BaseAlts, SubSeq(BaseAlts, 1, NumAlternatives - 1), Append(BaseAlts, Alt(<<"F">>)),
     [BaseAlts EXCEPT ![1].text = <<>>], [BaseAlts EXCEPT ![1].text = Missing],
     [i \in 1..NumAlternatives |-> Alt(<<"a">>)],
     [i \in 1..NumAlternatives |-> [BaseAlts[i] EXCEPT !.letter =
            <<CASE i = 1 -> "a" [] i = 2 -> "b" [] i = 3 -> "c" [] i = 4 -> "d" [] OTHER -> "e">>]]}
        \cup {[BaseAlts EXCEPT ![p].letter = v] : p \in {1, NumAlternatives}, v \in LetterVals}

CorrectVals == {<<"A">>, <<"e">>, <<"F">>, <<>>, Missing, Null}

BaseData == [title |-> <<"T">>, context |-> <<"c">>, alternatives |-> BaseAlts,
             correct_alternative |-> <<"C">>, rationale |-> <<"r">>]

GenData ==
    {[BaseData EXCEPT !.alternatives = a, !.correct_alternative = c] :
         a \in AltLists \cup {Missing}, c \in CorrectVals \cup {<<"C">>}}
        \cup {[BaseData EXCEPT !.title = v] : v \in {<<>>, Missing, Null}}
        \cup {[BaseData EXCEPT !.rationale = v] : v \in {<<>>, Missing, Null}}
        \cup {[BaseData EXCEPT !.context = v] : v \in {<<>>, Missing, Null}}

GenContents ==
    {[shape |-> "object", data |-> d] : d \in GenData}
        \cup {[shape |-> sh, data |-> Missing] : sh \in Shapes \ {"object"}}

ValContents == {<<"APROVADA">>, <<"PROBLEMAS IDENTIFICADOS">>}

----------------------------------------------------------------------------
(* _parse_generated_question on the characters of a completion text.  Braces,
   backticks, whitespace and the letters of a language tag are characters; the
   character "T" stands for the members of a JSON object that has every field
   of a draft, and "~" is written for the backtick *)

Backticks == <<"~", "~", "~">>
JsonFence == Backticks \o <<"j", "s", "o", "n">>

\* s.startswith(prefix), s.endswith(suffix), s[n:], s[:-n]
startswith(s, prefix) == Len(s) >= Len(prefix) /\ SubSeq(s, 1, Len(prefix)) = prefix
endswith(s, suffix) ==
    Len(s) >= Len(suffix) /\ SubSeq(s, Len(s) - Len(suffix) + 1, Len(s)) = suffix
DropFirst(s, n) == SubSeq(s, n + 1, Len(s))
DropLast(s, n) == SubSeq(s, 1, Len(s) - n)

\* cleaned_content: stripped, the markdown markers removed, stripped again
cleaned_content(text) ==
    LET stripped == strip(text)
        opened == IF startswith(stripped, JsonFence) THEN DropFirst(stripped, Len(JsonFence))
                  ELSE IF startswith(stripped, Backticks)
                       THEN DropFirst(stripped, Len(Backticks))
                  ELSE stripped
        closed == IF endswith(opened, Backticks) THEN DropLast(opened, Len(Backticks))
                  ELSE opened
    IN  strip(closed)

start_idx_zero(cleaned) == IF \E i \in 1..Len(cleaned) : cleaned[i] = "{" THEN 1 ELSE 0
\* cleaned_content.find of the opening brace: the position of the first brace, 0 when there is none
start_idx(cleaned) ==
    IF \E i \in 1..Len(cleaned) : cleaned[i] = "{"
    THEN CHOOSE i \in 1..Len(cleaned) :
             cleaned[i] = "{" /\ \A j \in 1..(i - 1) : cleaned[j] # "{"
    ELSE 0

\* the brace-counting loop from position i: the position of the brace that
\* brings the count back to 0, or 0 when none does
RECURSIVE BraceScan(_, _, _)
BraceScan(cleaned, i, brace_count) ==
    IF i > Len(cleaned) THEN 0
    ELSE IF cleaned[i] = "{" THEN BraceScan(cleaned, i + 1, brace_count + 1)
    ELSE IF cleaned[i] = "}"
         THEN IF brace_count - 1 = 0 THEN i
              ELSE BraceScan(cleaned, i + 1, brace_count - 1)
    ELSE BraceScan(cleaned, i + 1, brace_count)

\* json_content = cleaned_content[start_idx:end_idx]; empty when the braces
\* never balance (end_idx stays start_idx)
json_content(cleaned) ==
    LET end_idx == BraceScan(cleaned, start_idx(cleaned), 0) IN
    IF end_idx = 0 THEN <<>> ELSE SubSeq(cleaned, start_idx(cleaned), end_idx)

\* the characters of a text that are not whitespace
RECURSIVE NonBlank(_)
NonBlank(s) ==
    IF s = <<>> THEN <<>>
    ELSE IF Head(s) \in Whitespace THEN NonBlank(Tail(s))
    ELSE <<Head(s)>> \o NonBlank(Tail(s))

\* the object with no member
EmptyData == [title |-> Missing, context |-> Missing, alternatives |-> Missing,
              correct_alternative |-> Missing, rationale |-> Missing]

\* what _parse_generated_question has in hand after json.loads(json_content)
ContentOf(text) ==
    LET cleaned == cleaned_content(text) IN
    IF start_idx(cleaned) = 0 THEN [shape |-> "nobrace", data |-> Missing]
    ELSE IF json_content(cleaned) = <<>> THEN [shape |-> "unbalanced", data |-> Missing]
    ELSE IF NonBlank(json_content(cleaned)) = <<"{", "T", "}">>
         THEN [shape |-> "object", data |-> BaseData]
    ELSE IF NonBlank(json_content(cleaned)) = <<"{", "}">>
         THEN [shape |-> "object", data |-> EmptyData]
    ELSE [shape |-> "invalid", data |-> Missing]

\* _parse_generated_question: the draft it returns, or the exception it raises
parse_generated_question(text) ==
    LET content == ContentOf(text) IN
    IF ParseError(content) # None
    THEN [done |-> TRUE, ok |-> FALSE, error |-> ParseError(content), draft |-> NoDraft]
    ELSE [done |-> TRUE, ok |-> TRUE, error |-> None, draft |-> ParsedDraft(content)]

(* Texts and fences tried *)

JsonChars == {"{", "}", "T", " ", "~"}
JsonTexts ==
    Strings(JsonChars, MaxJsonLen)
        \cup {Backticks \o <<"{", "T", "}">>, <<"{", "T", "}">> \o Backticks,
              JsonFence \o <<"\n", "{", "T", "}", "\n">> \o Backticks,
              <<"{", "T", "{", "}", "}">>, <<"{", "{", "T", "}">>}

Fences ==
    {[lead |-> l, open |-> o, gap |-> g, close |-> Backticks, trail |-> t] :
         l \in {<<>>, <<"\n">>}, t \in {<<>>, <<" ">>},
         o \in {Backticks, JsonFence, Backticks \o <<"p", "y">>},
         g \in {<<>>, <<"\n">>}}

\* the text between the markers of a fence
Wrap(f, text) == f.lead \o f.open \o f.gap \o text \o f.gap \o f.close \o f.trail

\* the text alone is parsed
ParsePlain ==
    /\ ~parsed.plain.done
    /\ parsed' = [parsed EXCEPT !.plain = parse_generated_question(response_content)]
    /\ UNCHANGED <<cfgVars, examVars, response_content, fence, rotVars, thrVars, reqVars>>

\* the fenced text is parsed
ParseFenced ==
    /\ parsed.plain.done
    /\ ~parsed.fenced.done
    /\ parsed' = [parsed EXCEPT !.fenced =
                      parse_generated_question(Wrap(fence, response_content))]
    /\ UNCHANGED <<cfgVars, examVars, response_content, fence, rotVars, thrVars, reqVars>>

(* SpecParse: one text, parsed alone and fenced *)

InitParse ==
    /\ GROQ_API_KEY = <<"a">>
    /\ GROQ_API_TOKENS = None
    /\ RotInit
    /\ ExamInit
    /\ response_content \in JsonTexts
    /\ fence \in Fences
    /\ parsed = [plain |-> NotParsed, fenced |-> NotParsed]
    /\ search_tool = "tool"

NextParse ==
    \/ ParsePlain
    \/ ParseFenced

SpecParse == InitParse /\ [][NextParse]_vars

----------------------------------------------------------------------------
(* The generation workflow: _build_graph, the nodes, generate_question *)

Blanks(n) == [i \in 1..n |-> " "]
Xs(n) == [i \in 1..n |-> "x"]

\* what self.search_tool.invoke can give: an exception, or a text
SearchTexts ==
    {Blanks(p) \o Xs(n) \o Blanks(p) :
         p \in 0..MaxPad, n \in {0, MinUsefulLen, MinUsefulLen + 1}}
SearchAnswers == {[raised |-> TRUE, text |-> <<>>]}
                     \cup {[raised |-> FALSE, text |-> t] : t \in SearchTexts}

\* if search_results and len(search_results.strip()) > 10
UsefulResult(text) == Truthy(text) /\ Len(strip(text)) > MinUsefulLen

\* str(e) of the exception _search_internet ends with, or None
SearchError(tool, answer) ==
    IF tool = "None"
    THEN <<"Falha na busca DuckDuckGo", "DuckDuckGo Search nao inicializado">>
    ELSE IF answer.raised THEN <<"Falha na busca DuckDuckGo", "search backend error">>
    ELSE IF ~UsefulResult(answer.text)
         THEN <<"Falha na busca DuckDuckGo", "Resultados DuckDuckGo vazios">>
    ELSE None

decide_after_validation_inverted(generated_question) ==
    IF generated_question = NoDraft THEN "complete" ELSE "fail"
decide_after_validation_refine(generated_question) ==
    IF generated_question # NoDraft THEN "refine" ELSE "fail"
\* _decide_after_validation
decide_after_validation(generated_question) ==
    IF generated_question # NoDraft THEN "complete" ELSE "fail"

NodeAfterValidation_loop(route) == IF route = "fail" THEN "END" ELSE "validation_node"
\* the conditional edges after validation_node
NodeAfterValidation(route) == IF route = "refine" THEN "refinement_node" ELSE "END"

\* generate_question: the initial state is built and the graph entered
StartRun(r) ==
    /\ wf[r].node = "idle"
    /\ llm[r].pc = "idle"
    /\ \E mr \in 0..MaxRefinements :
         wf' = [wf EXCEPT ![r] = [WfIdle EXCEPT !.node = "research_node",
                                                !.max_refinements = mr]]
    /\ UNCHANGED <<cfgVars, examVars, parseVars, rotVars, thrVars, llm, search_tool>>

\* research_node (_research_context, _search_internet), then the edge to generation_node
ResearchNode(r) ==
    /\ wf[r].node = "research_node"
    /\ \E answer \in SearchAnswers :
         LET err == SearchError(search_tool, answer)
             invoked == IF search_tool = "None" THEN 0 ELSE 1 IN
         IF err # None
         THEN wf' = [wf EXCEPT ![r].stage = "failed",
                               ![r].error_message =
                                   <<"Erro na pesquisa de contexto", "Falha na busca online">> \o err,
                               ![r].research = "failed",
                               ![r].search_calls = @ + invoked,
                               ![r].node = "generation_node"]
         ELSE wf' = [wf EXCEPT ![r].stage = "context_research",
                               ![r].context_research =
                                   <<"Pesquisa sobre", "Resultados da busca DuckDuckGo sobre">>
                                       \o answer.text,
                               ![r].research = "ok",
                               ![r].search_calls = @ + invoked,
                               ![r].node = "generation_node"]
    /\ UNCHANGED <<cfgVars, examVars, parseVars, rotVars, thrVars, llm, search_tool>>

\* generation_node up to its await of _call_llm_with_retry
GenerationStart(r) ==
    /\ wf[r].node = "generation_node"
    /\ llm' = [llm EXCEPT ![r] = Activation(r, DefaultMaxRetries)]
    /\ wf' = [wf EXCEPT ![r].node = "generation_wait"]
    /\ UNCHANGED <<cfgVars, examVars, parseVars, rotVars, thrVars, search_tool>>

GenerationFinish_shared(r) ==
    /\ wf[r].node = "generation_wait"
    /\ Ended(llm[r])
    /\ LET err == IF llm[r].pc = "raised" THEN llm[r].error.msg
                  ELSE ParseError(llm[r].result) IN
       IF err # None
       THEN wf' = [wf EXCEPT ![r].stage = "failed",
                             ![r].error_message = <<"Erro na geracao da questao">> \o err,
                             ![r].generation = "failed",
                             ![r].parse_failed = (llm[r].pc = "returned"),
                             ![r].node = "validation_node"]
       ELSE wf' = [q \in Reqs |->
                      IF q = r
                      THEN [wf[q] EXCEPT !.stage = "generation",
                                         !.generated_question = ParsedDraft(llm[r].result),
                                         !.generation = "ok",
                                         !.node = "validation_node"]
                      ELSE [wf[q] EXCEPT !.generated_question = ParsedDraft(llm[r].result)]]
    /\ llm' = [llm EXCEPT ![r] = [LlmIdle EXCEPT !.runs = llm[r].runs]]
    /\ UNCHANGED <<cfgVars, examVars, parseVars, rotVars, thrVars, search_tool>>
\* generation_node from the end of _call_llm_with_retry, then the edge to validation_node
GenerationFinish(r) ==
    /\ wf[r].node = "generation_wait"
    /\ Ended(llm[r])
    /\ LET err == IF llm[r].pc = "raised" THEN llm[r].error.msg
                  ELSE ParseError(llm[r].result) IN
       IF err # None
       THEN wf' = [wf EXCEPT ![r].stage = "failed",
                             ![r].error_message = <<"Erro na geracao da questao">> \o err,
                             ![r].generation = "failed",
                             ![r].parse_failed = (llm[r].pc = "returned"),
                             ![r].node = "validation_node"]
       ELSE wf' = [wf EXCEPT ![r].stage = "generation",
                             ![r].generated_question = ParsedDraft(llm[r].result),
                             ![r].generation = "ok",
                             ![r].node = "validation_node"]
    /\ llm' = [llm EXCEPT ![r] = [LlmIdle EXCEPT !.runs = llm[r].runs]]
    /\ UNCHANGED <<cfgVars, examVars, parseVars, rotVars, thrVars, search_tool>>

ValidationStart_nodraftcheck(r) ==
    /\ wf[r].node = "validation_node"
    /\ llm' = [llm EXCEPT ![r] = Activation(r, DefaultMaxRetries)]
    /\ wf' = [wf EXCEPT ![r].node = "validation_wait"]
    /\ UNCHANGED <<cfgVars, examVars, parseVars, rotVars, thrVars, search_tool>>
\* validation_node up to its await; without a draft it returns at once and the
\* conditional edge is taken
ValidationStart(r) ==
    /\ wf[r].node = "validation_node"
    /\ IF wf[r].generated_question = NoDraft
       THEN /\ wf' = [wf EXCEPT ![r].stage = "failed",
                                ![r].error_message = <<"Nenhuma questao foi gerada para validar">>,
                                ![r].validation = "nodraft",
                                ![r].route = decide_after_validation(wf[r].generated_question),
                                ![r].node = NodeAfterValidation(
                                                decide_after_validation(wf[r].generated_question))]
            /\ UNCHANGED llm
       ELSE /\ llm' = [llm EXCEPT ![r] = Activation(r, DefaultMaxRetries)]
            /\ wf' = [wf EXCEPT ![r].node = "validation_wait"]
    /\ UNCHANGED <<cfgVars, examVars, parseVars, rotVars, thrVars, search_tool>>

\* validation_node from the end of _call_llm_with_retry, then the conditional edge
ValidationFinish(r) ==
    /\ wf[r].node = "validation_wait"
    /\ Ended(llm[r])
    /\ LET route == decide_after_validation(wf[r].generated_question) IN
       IF llm[r].pc = "raised"
       THEN wf' = [wf EXCEPT ![r].stage = "failed",
                             ![r].error_message =
                                 <<"Erro na validacao da questao">> \o llm[r].error.msg,
                             ![r].validation = "failed",
                             ![r].route = route,
                             ![r].node = NodeAfterValidation(route)]
       ELSE wf' = [wf EXCEPT ![r].stage = "validation",
                             ![r].validation_feedback = llm[r].result,
                             ![r].validation = "ok",
                             ![r].route = route,
                             ![r].node = NodeAfterValidation(route)]
    /\ llm' = [llm EXCEPT ![r] = [LlmIdle EXCEPT !.runs = llm[r].runs]]
    /\ UNCHANGED <<cfgVars, examVars, parseVars, rotVars, thrVars, search_tool>>

\* except Exception as e: return {"success": False, "error": ...}
OnException(msg) == [NoResult EXCEPT !.error = <<"Erro na geracao da questao">> \o msg]

ResultOf_gated(final_state) ==
    IF final_state.stage = "failed"
    THEN [NoResult EXCEPT !.error = final_state.error_message]
    ELSE IF final_state.generated_question = NoDraft
             \/ final_state.validation_feedback # <<"APROVADA">>
    THEN [NoResult EXCEPT !.error = <<"Nenhuma questao foi gerada">>]
    ELSE IF ~SchemaAccepts(final_state.generated_question)
    THEN OnException(<<"ValidationError: GeneratedQuestionCreate">>)
    ELSE [NoResult EXCEPT !.success = TRUE,
                          !.generated_question = CreationRecord(final_state.generated_question),
                          !.refinement_count = final_state.refinement_count]
ResultOf_nostagecheck(final_state) ==
    IF final_state.generated_question = NoDraft
    THEN [NoResult EXCEPT !.error = <<"Nenhuma questao foi gerada">>]
    ELSE IF ~SchemaAccepts(final_state.generated_question)
    THEN OnException(<<"ValidationError: GeneratedQuestionCreate">>)
    ELSE [NoResult EXCEPT !.success = TRUE,
                          !.generated_question = CreationRecord(final_state.generated_question),
                          !.refinement_count = final_state.refinement_count]
\* generate_question after graph.ainvoke: the result built from the final state
ResultOf(final_state) ==
    IF final_state.stage = "failed"
    THEN [NoResult EXCEPT !.error = final_state.error_message]
    ELSE IF final_state.generated_question = NoDraft
    THEN [NoResult EXCEPT !.error = <<"Nenhuma questao foi gerada">>]
    ELSE IF ~SchemaAccepts(final_state.generated_question)
    THEN OnException(<<"ValidationError: GeneratedQuestionCreate">>)
    ELSE [NoResult EXCEPT !.success = TRUE,
                          !.generated_question = CreationRecord(final_state.generated_question),
                          !.refinement_count = final_state.refinement_count]

\* generate_question returns
ReturnResult(r) ==
    /\ wf[r].node = "END"
    /\ wf' = [wf EXCEPT ![r].result = ResultOf(wf[r]), ![r].node = "returned"]
    /\ UNCHANGED <<cfgVars, examVars, parseVars, rotVars, thrVars, llm, search_tool>>

\* the texts the completion service may answer to the request in flight
ReplyContents(r) == IF wf[r].node = "generation_wait" THEN GenContents ELSE ValContents

----------------------------------------------------------------------------
(* SpecGen: one generate_question run *)

InitGen ==
    /\ GROQ_API_KEY = <<"a">>
    /\ GROQ_API_TOKENS \in {None, <<"b">>}
    /\ RotInit
    /\ ExamInit
    /\ ParseInit
    /\ search_tool \in {"None", "tool"}

NextGen ==
    \/ get_groq_token_manager
    \/ StartRun(1)
    \/ ResearchNode(1)
    \/ GenerationStart(1)
    \/ ChatSend(1)
    \/ ChatReply(1, ReplyContents(1))
    \/ SleepDone(1)
    \/ GenerationFinish(1)
    \/ ValidationStart(1)
    \/ ValidationFinish(1)
    \/ ReturnResult(1)

SpecGen == InitGen /\ [][NextGen]_vars

\* the event loop resumes a coroutine that can continue, and every external
\* call returns or fails
SpecGenFair == SpecGen /\ WF_vars(NextGen)

----------------------------------------------------------------------------
(* SpecPair: two generate_question runs, the second after the first returned *)

\* completions of the generation prompt: a well-formed question, one the
\* creation schema refuses, and a text that holds no JSON object
PairGenContents ==
    {[shape |-> "object", data |-> BaseData],
     [shape |-> "object", data |-> [BaseData EXCEPT !.title = <<>>]],
     [shape |-> "nobrace", data |-> Missing]}

PairContents(r) == IF wf[r].node = "generation_wait" THEN PairGenContents ELSE ValContents

\* the second call is made when the first has returned
PairStart(r) ==
    /\ r = 1 \/ wf[1].node = "returned"
    /\ StartRun(r)

InitPair ==
    /\ GROQ_API_KEY = <<"a">>
    /\ GROQ_API_TOKENS = <<"b">>
    /\ RotInit
    /\ ExamInit
    /\ ParseInit
    /\ search_tool = "tool"

NextPair ==
    \/ get_groq_token_manager
    \/ \E r \in {1, 2} :
         \/ PairStart(r)
         \/ ResearchNode(r)
         \/ GenerationStart(r)
         \/ ChatSend(r)
         \/ ChatReply(r, PairContents(r))
         \/ SleepDone(r)
         \/ GenerationFinish(r)
         \/ ValidationStart(r)
         \/ ValidationFinish(r)
         \/ ReturnResult(r)

SpecPair == InitPair /\ [][NextPair]_vars

----------------------------------------------------------------------------
(* SpecRefine: the validate/refine loop as _build_graph wires it, entered by a
   validation decision that may answer "refine" *)

\* _decide_after_refinement
decide_after_refinement(refinement_count, max_refinements) ==
    IF refinement_count >= max_refinements THEN "fail" ELSE "validate"

\* the conditional edges after refinement_node
NodeAfterRefinement(route) == IF route = "validate" THEN "validation_node" ELSE "END"

\* validation_node from the end of _call_llm_with_retry, with a decision that
\* may take the "refine" edge when a draft exists
ValidationFinishWired(r) ==
    /\ wf[r].node = "validation_wait"
    /\ Ended(llm[r])
    /\ \E route \in {"refine", "complete"} :
         IF llm[r].pc = "raised"
         THEN wf' = [wf EXCEPT ![r].stage = "failed",
                               ![r].error_message =
                                   <<"Erro na validacao da questao">> \o llm[r].error.msg,
                               ![r].validation = "failed",
                               ![r].route = route,
                               ![r].node = NodeAfterValidation(route)]
         ELSE wf' = [wf EXCEPT ![r].stage = "validation",
                               ![r].validation_feedback = llm[r].result,
                               ![r].validation = "ok",
                               ![r].route = route,
                               ![r].node = NodeAfterValidation(route)]
    /\ llm' = [llm EXCEPT ![r] = [LlmIdle EXCEPT !.runs = llm[r].runs]]
    /\ UNCHANGED <<cfgVars, examVars, parseVars, rotVars, thrVars, search_tool>>

\* refinement_node up to its await of _call_llm_with_retry
RefinementStart(r) ==
    /\ wf[r].node = "refinement_node"
    /\ wf[r].refine_runs < MaxRefineRuns
    /\ llm' = [llm EXCEPT ![r] = Activation(r, DefaultMaxRetries)]
    /\ wf' = [wf EXCEPT ![r].node = "refinement_wait", ![r].refine_runs = @ + 1]
    /\ UNCHANGED <<cfgVars, examVars, parseVars, rotVars, thrVars, search_tool>>

\* refinement_node from the end of _call_llm_with_retry, then the conditional edge
RefinementFinish(r) ==
    /\ wf[r].node = "refinement_wait"
    /\ Ended(llm[r])
    /\ LET err == IF llm[r].pc = "raised" THEN llm[r].error.msg
                  ELSE ParseError(llm[r].result) IN
       IF err # None
       THEN LET route == decide_after_refinement(wf[r].refinement_count,
                                                 wf[r].max_refinements) IN
            wf' = [wf EXCEPT ![r].stage = "failed",
                             ![r].error_message = <<"Erro no refinamento da questao">> \o err,
                             ![r].route = route,
                             ![r].node = NodeAfterRefinement(route)]
       ELSE LET route == decide_after_refinement(wf[r].refinement_count + 1,
                                                 wf[r].max_refinements) IN
            wf' = [wf EXCEPT ![r].stage = "refinement",
                             ![r].generated_question = ParsedDraft(llm[r].result),
                             ![r].refinement_count = @ + 1,
                             ![r].route = route,
                             ![r].node = NodeAfterRefinement(route)]
    /\ llm' = [llm EXCEPT ![r] = [LlmIdle EXCEPT !.runs = llm[r].runs]]
    /\ UNCHANGED <<cfgVars, examVars, parseVars, rotVars, thrVars, search_tool>>

\* the texts the completion service may answer to the request in flight
RefineContents(r) == IF wf[r].node = "validation_wait" THEN ValContents ELSE PairGenContents

NextRefine ==
    \/ get_groq_token_manager
    \/ StartRun(1)
    \/ ResearchNode(1)
    \/ GenerationStart(1)
    \/ ChatSend(1)
    \/ ChatReply(1, RefineContents(1))
    \/ SleepDone(1)
    \/ GenerationFinish(1)
    \/ ValidationStart(1)
    \/ ValidationFinishWired(1)
    \/ RefinementStart(1)
    \/ RefinementFinish(1)
    \/ ReturnResult(1)

SpecRefine == InitPair /\ [][NextRefine]_vars

----------------------------------------------------------------------------
(* SpecTwoRuns: two generate_question calls in flight together on the singleton
   agent, interleaved at every await *)

TwoRuns == {1, 2}

\* every response of the services names the request it answers
Tag(r) == IF r = 1 THEN "1" ELSE "2"
OwnData(r) == [BaseData EXCEPT !.title = <<"T", Tag(r)>>]
OwnGenContents(r) == {[shape |-> "object", data |-> OwnData(r)],
                      [shape |-> "nobrace", data |-> Missing]}
OwnValContents(r) == {<<"APROVADA", Tag(r)>>}
OwnContents(r) == IF wf[r].node = "generation_wait" THEN OwnGenContents(r)
                  ELSE OwnValContents(r)
OwnNotes(r) == <<"Pesquisa sobre", "Resultados da busca DuckDuckGo sobre">>
                   \o Blanks(r - 1) \o Xs(MinUsefulLen + 1) \o Blanks(r - 1)

\* generate_question(..., max_refinements): each call with its own value
TwoStart(r) ==
    /\ StartRun(r)
    /\ wf'[r].max_refinements = r - 1

\* the search of request r raises or returns its own text
TwoResearch(r) ==
    /\ ResearchNode(r)
    /\ wf'[r].research = "failed" \/ wf'[r].context_research = OwnNotes(r)

\* the completion service answers request r; it may time out on a
\* validation prompt
TwoReply(r) ==
    /\ ChatReply(r, OwnContents(r))
    /\ \/ llm'[r].last.kind = "ok"
       \/ llm'[r].last.kind = "timeout" /\ wf[r].node = "validation_wait"

NextTwoRuns ==
    \/ get_groq_token_manager
    \/ \E r \in TwoRuns :
         \/ TwoStart(r)
         \/ TwoResearch(r)
         \/ GenerationStart(r)
         \/ ChatSend(r)
         \/ TwoReply(r)
         \/ SleepDone(r)
         \/ GenerationFinish(r)
         \/ ValidationStart(r)
         \/ ValidationFinish(r)
         \/ ReturnResult(r)

SpecTwoRuns == InitPair /\ [][NextTwoRuns]_vars

----------------------------------------------------------------------------
(* ExamService: create_exam, update_answer, finalize_exam over the exams
   collection (app/services/exam.py, app/services/base.py) *)

NOT_STARTED == "not_started"
IN_PROGRESS == "in_progress"
FINISHED == "finished"

\* Python booleans stored next to None
PyBool(b) == IF b THEN <<"True">> ELSE <<"False">>

\* the questions collection: ids and the correctAlternative of each
BankQuestions == 1..MaxQuestionCount
correctAlternative(q) == IF q = 1 THEN <<"A">> ELSE IF q = 2 THEN <<"B">> ELSE <<"C">>

\* what _select_questions can return: distinct questions of the bank, at most
\* question_count of them, none when the filters match nothing
Selections(question_count) ==
    {sel \in UNION {[1..k -> BankQuestions] : k \in 0..question_count} :
         \A i, j \in 1..Len(sel) : i # j => sel[i] # sel[j]}

\* ExamUpdate.user_answer: any str
AnswerVals == {<<"a">>, <<"B">>, <<>>}

\* outcomes of the collection call a service method makes
DbOutcomes == {"ok", "write_failed", "reread_failed"}

\* ExamQuestion(question_id, correct_answer): user_answer and is_correct are None
ExamQuestion(q) == [question_id |-> q, user_answer |-> None,
                    correct_answer |-> correctAlternative(q), is_correct |-> None]

\* exam_data_dict of create_exam; finished_at is None and is dropped by create()
NewExam(user_id, sel) ==
    [user_id |-> user_id,
     questions |-> [i \in 1..Len(sel) |-> ExamQuestion(sel[i])],
     total_questions |-> Len(sel),
     total_correct_answers |-> 0,
     total_wrong_answers |-> 0,
     status |-> NOT_STARTED,
     finished_at |-> None]

\* ExamService.create_exam
create_exam(user_id, question_count) ==
    /\ \E e \in ExamIds : exams[e] = NoExam
    /\ LET e == CHOOSE x \in ExamIds :
                    exams[x] = NoExam /\ \A y \in ExamIds : y < x => exams[y] # NoExam IN
       \E sel \in Selections(question_count), db \in DbOutcomes :
           IF sel = <<>>
           THEN /\ last_call' = [op |-> "create_exam", exam_id |-> 0,
                                 outcome |-> "ValueError: nenhuma questao"]
                /\ UNCHANGED exams
           ELSE IF db = "write_failed"
           THEN /\ last_call' = [op |-> "create_exam", exam_id |-> 0,
                                 outcome |-> "Exception: falha ao criar"]
                /\ UNCHANGED exams
           ELSE /\ exams' = [exams EXCEPT ![e] = NewExam(user_id, sel)]
                /\ last_call' = [op |-> "create_exam", exam_id |-> e,
                                 outcome |-> IF db = "ok" THEN "ok"
                                             ELSE "Exception: falha ao criar"]
    /\ UNCHANGED <<cfgVars, parseVars, rotVars, thrVars, reqVars, exam_reqs>>

\* the index of the first question of the exam with this id, 0 when there is none
QuestionIndex(doc, question_id) ==
    IF \E i \in 1..Len(doc.questions) : doc.questions[i].question_id = question_id
    THEN CHOOSE i \in 1..Len(doc.questions) :
             /\ doc.questions[i].question_id = question_id
             /\ \A j \in 1..(i - 1) : doc.questions[j].question_id # question_id
    ELSE 0

AnswerApplied_keepstatus(doc, i, user_answer) ==
    [doc EXCEPT !.questions[i].user_answer = upper(user_answer),
                !.questions[i].is_correct =
                    PyBool(upper(user_answer) = doc.questions[i].correct_answer)]
\* update_fields of update_answer applied by $set
AnswerApplied(doc, i, user_answer) ==
    [doc EXCEPT !.questions[i].user_answer = upper(user_answer),
                !.questions[i].is_correct =
                    PyBool(upper(user_answer) = doc.questions[i].correct_answer),
                !.status = IF doc.status = NOT_STARTED THEN IN_PROGRESS ELSE @]

\* the outcome of a method after self.update: the document is written unless
\* the write failed, and the method raises unless the re-read gave it back
AfterUpdate(op, e, before, after, db) ==
    /\ exams' = [exams EXCEPT ![e] = IF db = "write_failed" THEN before ELSE after]
    /\ last_call' = [op |-> op, exam_id |-> e,
                     outcome |-> IF db = "ok" THEN "ok" ELSE "Exception: falha no banco"]

\* ExamService.update_answer
update_answer(e, user_id, question_id, user_answer) ==
    /\ LET doc == exams[e] IN
       \E db \in DbOutcomes :
       IF doc = NoExam \/ doc.user_id # user_id
       THEN /\ last_call' = [op |-> "update_answer", exam_id |-> e,
                             outcome |-> "None"]
            /\ UNCHANGED exams
       ELSE IF doc.status = FINISHED
       THEN /\ last_call' = [op |-> "update_answer", exam_id |-> e,
                             outcome |-> "ValueError: exame finalizado"]
            /\ UNCHANGED exams
       ELSE IF QuestionIndex(doc, question_id) = 0
       THEN /\ last_call' = [op |-> "update_answer", exam_id |-> e,
                             outcome |-> "ValueError: questao nao encontrada"]
            /\ UNCHANGED exams
       ELSE AfterUpdate("update_answer", e, doc,
                        AnswerApplied(doc, QuestionIndex(doc, question_id), user_answer), db)
    /\ UNCHANGED <<cfgVars, parseVars, rotVars, thrVars, reqVars, exam_reqs>>

Unanswered_none(doc) == {}
\* unanswered = [q for q in questions if q.get("user_answer") is None]
Unanswered(doc) == {i \in 1..Len(doc.questions) : doc.questions[i].user_answer = None}

Finalized_countanswered(doc) ==
    LET correct_count ==
            Cardinality({i \in 1..Len(doc.questions) :
                             doc.questions[i].user_answer # None}) IN
    [doc EXCEPT !.total_correct_answers = correct_count,
                !.total_wrong_answers = doc.total_questions - correct_count,
                !.status = FINISHED,
                !.finished_at = <<"utcnow">>]
\* update_fields of finalize_exam applied by $set
Finalized(doc) ==
    LET correct_count ==
            Cardinality({i \in 1..Len(doc.questions) :
                             doc.questions[i].is_correct = PyBool(TRUE)}) IN
    [doc EXCEPT !.total_correct_answers = correct_count,
                !.total_wrong_answers = doc.total_questions - correct_count,
                !.status = FINISHED,
                !.finished_at = <<"utcnow">>]

\* ExamService.finalize_exam
finalize_exam(e, user_id) ==
    /\ LET doc == exams[e] IN
       \E db \in DbOutcomes :
       IF doc = NoExam \/ doc.user_id # user_id
       THEN /\ last_call' = [op |-> "finalize_exam", exam_id |-> e,
                             outcome |-> "None"]
            /\ UNCHANGED exams
       ELSE IF doc.status = FINISHED
       THEN /\ last_call' = [op |-> "finalize_exam", exam_id |-> e,
                             outcome |-> "ValueError: exame ja finalizado"]
            /\ UNCHANGED exams
       ELSE IF Unanswered(doc) # {}
       THEN /\ last_call' = [op |-> "finalize_exam", exam_id |-> e,
                             outcome |-> "ValueError: questoes sem resposta"]
            /\ UNCHANGED exams
       ELSE AfterUpdate("finalize_exam", e, doc, Finalized(doc), db)
    /\ UNCHANGED <<cfgVars, parseVars, rotVars, thrVars, reqVars, exam_reqs>>

(* SpecExam: service calls made one at a time *)

InitExam ==
    /\ GROQ_API_KEY = <<"a">>
    /\ GROQ_API_TOKENS = None
    /\ RotInit
    /\ ExamInit
    /\ ParseInit
    /\ search_tool = "tool"

NextExam ==
    \/ \E u \in Users, n \in 1..MaxQuestionCount : create_exam(u, n)
    \/ \E e \in ExamIds, u \in Users, q \in BankQuestions, a \in AnswerVals :
           update_answer(e, u, q, a)
    \/ \E e \in ExamIds, u \in Users : finalize_exam(e, u)

SpecExam == InitExam /\ [][NextExam]_vars

(* SpecExamRace: update_answer and finalize_exam served by two workers; the
   get_by_id of a call and its update are two operations on the collection *)

\* update_fields of update_answer, computed from the document that was read
AnswerFields(doc, i, user_answer) ==
    [kind |-> "answer", i |-> i,
     user_answer |-> upper(user_answer),
     is_correct |-> PyBool(upper(user_answer) = doc.questions[i].correct_answer),
     set_status |-> (doc.status = NOT_STARTED)]

\* update_fields of finalize_exam, computed from the document that was read
FinalizeFields(doc) ==
    LET correct_count ==
            Cardinality({i \in 1..Len(doc.questions) :
                             doc.questions[i].is_correct = PyBool(TRUE)}) IN
    [kind |-> "finalize",
     total_correct_answers |-> correct_count,
     total_wrong_answers |-> doc.total_questions - correct_count]

\* collection.update_one({"_id": id}, {"$set": update_fields}) on the stored document
SetFields(doc, f) ==
    IF f.kind = "answer"
    THEN [doc EXCEPT !.questions[f.i].user_answer = f.user_answer,
                     !.questions[f.i].is_correct = f.is_correct,
                     !.status = IF f.set_status THEN IN_PROGRESS ELSE @]
    ELSE [doc EXCEPT !.total_correct_answers = f.total_correct_answers,
                     !.total_wrong_answers = f.total_wrong_answers,
                     !.status = FINISHED,
                     !.finished_at = <<"utcnow">>]

\* update_answer up to self.update: get_by_id and the checks
UpdateAnswerRead(w, e, user_id, question_id, user_answer) ==
    /\ exam_reqs[w].pc = "idle"
    /\ LET doc == exams[e] IN
       IF doc = NoExam \/ doc.user_id # user_id
       THEN /\ last_call' = [op |-> "update_answer", exam_id |-> e, outcome |-> "None"]
            /\ UNCHANGED exam_reqs
       ELSE IF doc.status = FINISHED
       THEN /\ last_call' = [op |-> "update_answer", exam_id |-> e,
                             outcome |-> "ValueError: exame finalizado"]
            /\ UNCHANGED exam_reqs
       ELSE IF QuestionIndex(doc, question_id) = 0
       THEN /\ last_call' = [op |-> "update_answer", exam_id |-> e,
                             outcome |-> "ValueError: questao nao encontrada"]
            /\ UNCHANGED exam_reqs
       ELSE /\ exam_reqs' = [exam_reqs EXCEPT ![w] =
                                [pc |-> "write", op |-> "update_answer", exam_id |-> e,
                                 update_fields |->
                                     AnswerFields(doc, QuestionIndex(doc, question_id),
                                                  user_answer)]]
            /\ UNCHANGED last_call
    /\ UNCHANGED <<cfgVars, parseVars, rotVars, thrVars, reqVars, exams>>

\* finalize_exam up to self.update: get_by_id and the checks
FinalizeRead(w, e, user_id) ==
    /\ exam_reqs[w].pc = "idle"
    /\ LET doc == exams[e] IN
       IF doc = NoExam \/ doc.user_id # user_id
       THEN /\ last_call' = [op |-> "finalize_exam", exam_id |-> e, outcome |-> "None"]
            /\ UNCHANGED exam_reqs
       ELSE IF doc.status = FINISHED
       THEN /\ last_call' = [op |-> "finalize_exam", exam_id |-> e,
                             outcome |-> "ValueError: exame ja finalizado"]
            /\ UNCHANGED exam_reqs
       ELSE IF Unanswered(doc) # {}
       THEN /\ last_call' = [op |-> "finalize_exam", exam_id |-> e,
                             outcome |-> "ValueError: questoes sem resposta"]
            /\ UNCHANGED exam_reqs
       ELSE /\ exam_reqs' = [exam_reqs EXCEPT ![w] =
                                [pc |-> "write", op |-> "finalize_exam", exam_id |-> e,
                                 update_fields |-> FinalizeFields(doc)]]
            /\ UNCHANGED last_call
    /\ UNCHANGED <<cfgVars, parseVars, rotVars, thrVars, reqVars, exams>>

\* self.update(exam_id, update_fields) of the call worker w is in, and its return
ServiceWrite(w) ==
    /\ exam_reqs[w].pc = "write"
    /\ LET e == exam_reqs[w].exam_id IN
       \E db \in DbOutcomes :
           AfterUpdate(exam_reqs[w].op, e, exams[e],
                       SetFields(exams[e], exam_reqs[w].update_fields), db)
    /\ exam_reqs' = [exam_reqs EXCEPT ![w] = NoRequest]
    /\ UNCHANGED <<cfgVars, parseVars, rotVars, thrVars, reqVars>>

NextExamRace ==
    \/ \E u \in Users, n \in 1..MaxQuestionCount : create_exam(u, n)
    \/ \E w \in Workers, e \in ExamIds, u \in Users, q \in BankQuestions, a \in AnswerVals :
           UpdateAnswerRead(w, e, u, q, a)
    \/ \E w \in Workers, e \in ExamIds, u \in Users : FinalizeRead(w, e, u)
    \/ \E w \in Workers : ServiceWrite(w)

SpecExamRace == InitExam /\ [][NextExamRace]_vars

----------------------------------------------------------------------------
(* Properties of the credential rotator *)

IsUnique(xs) == Cardinality(Range(xs)) = Len(xs)

\* the token at rotation position m (1-based) of a pool
RotationAt(toks, m) == toks[((m - 1) % Len(toks)) + 1]

RECURSIVE SumCalls(_)
SumCalls(S) == IF S = {} THEN 0
               ELSE LET t == CHOOSE u \in S : TRUE IN thr[t].calls + SumCalls(S \ {t})

\* C7: for a manager over N >= 2 unique credentials, the first N get_next_token
\* calls return the N credentials once each, in pool order from the first one,
\* and call N+1 returns what call 1 returned.
C7_RoundRobin ==
    (groq_token_manager = "installed" /\ Len(tokens) >= 2 /\ IsUnique(tokens)) =>
        LET N == Len(tokens) IN
        /\ \A i \in 1..Len(call_log) : i <= N => call_log[i] = tokens[i]
        /\ \A i, j \in 1..Len(call_log) : (i < j /\ j <= N) => call_log[i] # call_log[j]
        /\ Len(call_log) >= N + 1 => call_log[N + 1] = call_log[1]

C7_Witness ==
    /\ groq_token_manager = "installed"
    /\ Len(tokens) = 3
    /\ IsUnique(tokens)
    /\ Len(call_log) = Len(tokens) + 1

\* C8: under every interleaving of concurrent get_next_token calls, the m-th
\* call to return got the credential at rotation position m, and once no call
\* is in progress total_usage equals the number of calls made (no lost update).
C8_NoLostUpdate ==
    groq_token_manager = "installed" =>
        /\ \A m \in 1..Len(call_log) : call_log[m] = RotationAt(tokens, m)
        /\ (\A t \in Threads : thr[t].pc = "idle") =>
               /\ total_usage = SumCalls(Threads)
               /\ Len(call_log) = SumCalls(Threads)

C8_Witness ==
    /\ groq_token_manager = "installed"
    /\ Len(tokens) >= 2
    /\ \A t \in Threads : thr[t].pc = "idle" /\ thr[t].calls = MaxThreadCalls
    /\ total_usage = NumThreads * MaxThreadCalls
    /\ \E t, u \in Threads : t # u /\ thr[t].ret # thr[u].ret

\* the credentials handed to the constructor path, before any cleaning
ConfiguredList ==
    (IF Truthy(GROQ_API_KEY) THEN <<GROQ_API_KEY>> ELSE <<>>)
        \o (IF Truthy(GROQ_API_TOKENS) THEN split(GROQ_API_TOKENS) ELSE <<>>)

\* C9: a rotator built from a list with duplicates reports as its total the
\* number of distinct credentials, and holds them in first-occurrence order.
C9_DedupTotal ==
    groq_token_manager = "installed" =>
        /\ total_tokens = Cardinality(Range(tokens))
        /\ tokens = unique_tokens(StripNonBlank(ConfiguredList), {})

----------------------------------------------------------------------------
(* Properties of the retrying invoker *)

\* C4: with a pool of at least two unique credentials and max_retries >= 2,
\* every attempt after a failed one uses a credential different from the one
\* the failed attempt used, and when the answer to an attempt is a success the
\* invocation returns that answer (first attempt fails on C1, second succeeds
\* on C2: the call returns, and C2 differs from C1).
C4_RetrySwapsCredential ==
    LET l == llm[1] IN
    (Len(tokens) >= 2 /\ IsUnique(tokens) /\ l.max_retries >= 2) =>
        /\ \A i \in 2..Len(l.used) : l.used[i] # l.used[i - 1]
        /\ l.last.kind = "ok" =>
               /\ l.pc = "returned"
               /\ l.result = l.last.content
               /\ l.token = l.used[Len(l.used)]

C4_Witness ==
    LET l == llm[1] IN
    /\ Len(tokens) >= 2 /\ IsUnique(tokens) /\ l.max_retries >= 2
    /\ l.pc = "returned" /\ l.calls = 2 /\ l.result \in RetryContents
    /\ l.used[1] # l.used[2]

\* C5: when every attempt fails, an invocation with max_retries = K makes
\* exactly K completion calls and raises the error of the K-th; it returns no
\* value, and no invocation ever makes more than K calls.
C5_RetryExhaustion ==
    LET l == llm[1] IN
    /\ l.calls <= l.max_retries
    /\ (Ended(l) /\ l.max_retries >= 1 /\ l.last.kind # "ok") =>
           /\ l.pc = "raised"
           /\ l.calls = l.max_retries
           /\ l.error = [msg |-> ErrorMsg(l.last.kind), at |-> l.max_retries - 1]
           /\ l.result = None

C5_Witness ==
    LET l == llm[1] IN
    /\ l.pc = "raised" /\ l.max_retries = MaxRetries /\ l.calls = MaxRetries
    /\ l.error.at = MaxRetries - 1

\* C6: every completion attempt advances the rotator exactly once and nothing
\* else does: total_usage has grown by the number of attempts made, so an
\* invocation that succeeds on attempt j has made j calls, returns the content
\* of that attempt and has raised total_usage by j.
C6_OneRotationPerAttempt ==
    LET l == llm[1] IN
    groq_token_manager = "installed" =>
        /\ total_usage = l.usage0 + l.calls
        /\ Len(l.used) = l.calls
        /\ (l.pc = "returned" /\ l.max_retries >= 1) =>
               /\ l.calls = l.last.at + 1
               /\ l.result = l.last.content
               /\ total_usage = l.usage0 + l.last.at + 1

C6_Witness ==
    LET l == llm[1] IN
    /\ l.pc = "returned" /\ l.max_retries = 3 /\ l.calls = 3
    /\ l.result \in RetryContents
    /\ total_usage = l.usage0 + 3
    /\ l.runs = 2

----------------------------------------------------------------------------
(* Properties of the generation workflow *)

Returned(w) == w.node = "returned"

\* the error text names the research / search failure
MentionsResearch(error) ==
    /\ error # None
    /\ \E i \in 1..Len(error) :
           error[i] \in {"Erro na pesquisa de contexto", "Falha na busca online",
                         "Falha na busca DuckDuckGo"}

NonEmptyError(error) == error # None /\ Len(error) > 0

\* C1: a run whose research stage failed ends in FAILED with a non-empty error
\* and no draft, and generate_question returns success = false with an error
\* that mentions the research failure, whatever the completions answer.
C1_ResearchFailureFails ==
    LET w == wf[1] IN
    (Returned(w) /\ w.research = "failed") =>
        /\ w.stage = "failed"
        /\ NonEmptyError(w.error_message)
        /\ w.generated_question = NoDraft
        /\ ~w.result.success
        /\ MentionsResearch(w.result.error)

\* the three stages ran and each succeeded
AllStagesSucceeded(w) ==
    w.research = "ok" /\ w.generation = "ok" /\ w.validation = "ok"

\* the run took the complete edge with a draft, and the result is a success
\* that carries the draft
CompletedWithDraft(w) ==
    /\ w.route = "complete"
    /\ w.stage # "failed"
    /\ w.generated_question # NoDraft
    /\ w.result.success
    /\ ~w.result.raised
    /\ w.result.generated_question.title = w.generated_question.title
    /\ w.result.generated_question.context = w.generated_question.context
    /\ w.result.generated_question.alternatives = w.generated_question.alternatives
    /\ w.result.generated_question.rationale = w.generated_question.rationale
    /\ w.result.generated_question.correctAlternative
           = upper(w.generated_question.correct_alternative)

WellFormedDraft(g) ==
    /\ Len(g.alternatives) = 5
    /\ \E c \in {"A", "B", "C", "D", "E", "a", "b", "c", "d", "e"} :
           g.correct_alternative = <<c>>
    /\ g.title # <<>>
    /\ g.rationale # <<>>

DomainFailure(w) ==
    \/ w.research = "failed"
    \/ w.generation = "failed"
    \/ w.validation = "failed"
    \/ (w.generated_question # NoDraft /\ ~WellFormedDraft(w.generated_question))

\* C3: for every combination of domain failures generate_question raises
\* nothing and returns success = false with a non-empty error.
C3_DomainFailureReturnsError ==
    LET w == wf[1] IN
    (Returned(w) /\ DomainFailure(w)) =>
        /\ ~w.result.raised
        /\ ~w.result.success
        /\ NonEmptyError(w.result.error)

\* supporting invariant: no run of generate_question ends by raising
NoExceptionPropagates == \A r \in Reqs : ~wf[r].result.raised

\* C10: every success result carries exactly five options, a correct letter
\* in A..E that is the letter of one of them, and exactly one option flagged
\* isCorrect, the one whose letter is the correct letter.
C10_ExactlyOneCorrect ==
    LET w == wf[1]
        q == w.result.generated_question IN
    (Returned(w) /\ w.result.success) =>
        /\ Len(q.alternatives) = 5
        /\ q.correctAlternative \in ValidLetters
        /\ \E i \in 1..Len(q.alternatives) : q.alternatives[i].letter = q.correctAlternative
        /\ Cardinality({i \in 1..Len(q.alternatives) : q.alternatives[i].isCorrect}) = 1
        /\ \A i \in 1..Len(q.alternatives) :
               q.alternatives[i].isCorrect <=> (q.alternatives[i].letter = q.correctAlternative)

\* the options of a draft that are flagged isCorrect
FlaggedCorrect(alternatives) == {i \in 1..Len(alternatives) : alternatives[i].isCorrect}

\* C11: every completion text _parse_generated_question parses successfully
\* gives a draft with exactly five options, exactly one of them flagged
\* isCorrect, and the letter of that option is correct_alternative uppercased.
C11_ParsedDraftOneCorrect ==
    LET w == wf[1]
        g == w.generated_question IN
    w.generation = "ok" =>
        /\ Len(g.alternatives) = 5
        /\ Cardinality(FlaggedCorrect(g.alternatives)) = 1
        /\ \A i \in FlaggedCorrect(g.alternatives) :
               g.alternatives[i].letter = upper(g.correct_alternative)

\* C12: in every run, whatever the validation answers and whatever
\* max_refinements is, the refinement node is never entered and the
\* refinement count stays 0; every success result reports refinement_count 0.
C12_RefinementNeverRuns ==
    LET w == wf[1] IN
    /\ w.node # "refinement_node"
    /\ w.route # "refine"
    /\ w.refinement_count = 0
    /\ (Returned(w) /\ w.result.success) => w.result.refinement_count = 0

C12_Witness ==
    LET w == wf[1] IN
    /\ Returned(w) /\ w.result.success
    /\ w.validation_feedback = <<"PROBLEMAS IDENTIFICADOS">>
    /\ w.max_refinements = MaxRefinements
    /\ w.result.refinement_count = 0

\* the first stage of the run that failed, "none" when no stage failed
FirstFailedStage(w) ==
    IF w.research = "failed" THEN "research"
    ELSE IF w.generation = "failed" THEN "generation"
    ELSE IF w.validation \in {"failed", "nodraft"} THEN "validation"
    ELSE "none"

\* the heading each stage puts in front of the error it records
StageHeading(stage) ==
    CASE stage = "research"   -> "Erro na pesquisa de contexto"
      [] stage = "generation" -> "Erro na geracao da questao"
      [] stage = "validation" -> "Erro na validacao da questao"

\* C13: when generate_question returns success = false after a stage failed,
\* the error is the one the first failed stage recorded: it starts with that
\* stage's heading and carries the cause; in particular a failed generation
\* stage gives the generation error, not one written by a later stage.
C13_ErrorOfFirstFailedStage ==
    LET w == wf[1] IN
    (Returned(w) /\ ~w.result.success /\ FirstFailedStage(w) # "none") =>
        /\ w.result.error # None
        /\ Len(w.result.error) >= 2
        /\ w.result.error[1] = StageHeading(FirstFailedStage(w))

\* C20: once the research stage of a run has failed, the generation stage
\* does not run and no completion call is issued: no activation of the
\* retrying invoker exists, and no draft is produced.
C20_NoCompletionAfterResearchFailure ==
    LET w == wf[1] IN
    w.research = "failed" =>
        /\ llm[1].pc = "idle"
        /\ llm[1].calls = 0
        /\ w.generation = "none"
        /\ w.validation \in {"none", "nodraft"}
        /\ w.generated_question = NoDraft

----------------------------------------------------------------------------
(* Properties of the token statistics and of the singleton's construction *)

\* s occurs in text as a contiguous run of characters
Occurs(s, text) ==
    \E i \in 1..(Len(text) - Len(s) + 1) : SubSeq(text, i, i + Len(s) - 1) = s

\* C14: the dict get_token_stats returns holds no complete credential of the
\* pool: no credential is a key of usage_per_token, and none occurs whole in
\* current_token_masked.
C14_StatsHideCredentials ==
    (groq_token_manager = "installed" /\ lock = 0) =>
        \A t \in Range(tokens) :
            /\ t \notin DOMAIN get_token_stats.usage_per_token
            /\ get_token_stats.current_token_masked # None
                   => ~Occurs(t, get_token_stats.current_token_masked)

\* the pool the settings describe: blank entries dropped, duplicates removed
EffectivePool == unique_tokens(StripNonBlank(ConfiguredList), {})

\* C15: whenever the pool is empty once blank entries are dropped and
\* duplicates removed, building the singleton ends with an error and no
\* rotator is installed.
C15_EmptyPoolFailsConstruction ==
    EffectivePool = <<>> =>
        /\ groq_token_manager = "None"
        /\ tokens = <<>>
        /\ call_log = <<>>
        /\ (ctor_error = None) => ENABLED get_groq_token_manager

C15_Witness ==
    /\ GROQ_API_KEY = <<" ">>
    /\ GROQ_API_TOKENS = <<" ", ",", " ">>
    /\ EffectivePool = <<>>
    /\ groq_token_manager = "None"
    /\ ctor_error = <<"Nenhum token valido fornecido">>

----------------------------------------------------------------------------
(* Properties of concurrent requests *)

\* C19: with a pool of at least two unique credentials shared by requests
\* running together, every retry of a request uses a credential different
\* from the one that request's immediately preceding failed attempt used.
C19_ConcurrentRetrySwapsCredential ==
    (Len(tokens) >= 2 /\ IsUnique(tokens)) =>
        \A r \in Reqs : \A i \in 2..Len(llm[r].used) :
            llm[r].used[i] # llm[r].used[i - 1]

----------------------------------------------------------------------------
(* Properties of the exam service *)

\* the document has a question without a user answer
HasUnanswered(doc) == \E i \in 1..Len(doc.questions) : doc.questions[i].user_answer = None

\* C17: an exam becomes FINISHED only in a step of finalize_exam taken when
\* every question had a user answer, a FINISHED exam has no unanswered
\* question, and a finalize_exam call on an exam with an unanswered question
\* ends with an error and leaves the stored document as it was.
C17_FinalizeNeedsAllAnswers ==
    /\ [](\A e \in ExamIds :
              (exams[e] # NoExam /\ exams[e].status = FINISHED) => ~HasUnanswered(exams[e]))
    /\ [][\A e \in ExamIds :
              /\ (exams[e] # NoExam /\ exams[e].status # FINISHED
                      /\ exams'[e].status = FINISHED)
                     => /\ last_call'.op = "finalize_exam"
                        /\ ~HasUnanswered(exams[e])
              /\ (last_call'.op = "finalize_exam" /\ last_call'.exam_id = e
                      /\ exams[e] # NoExam /\ HasUnanswered(exams[e]))
                     => /\ last_call'.outcome \notin {"ok", "none"}
                        /\ exams'[e] = exams[e]]_vars

C17_Witness ==
    /\ last_call = [op |-> "finalize_exam", exam_id |-> 1,
                    outcome |-> "ValueError: questoes sem resposta"]
    /\ exams[1].status = IN_PROGRESS
    /\ Len(exams[1].questions) = 2
    /\ exams[1].questions[1].user_answer # None
    /\ exams[1].questions[2].user_answer = None
    /\ exams[1].finished_at = None

StatusRank(status) ==
    CASE status = NOT_STARTED -> 0 [] status = IN_PROGRESS -> 1 [] status = FINISHED -> 2

\* C18: over calls made one at a time, a new exam is NOT_STARTED, every
\* successful update_answer leaves the exam IN_PROGRESS, and no call moves the
\* status backwards or past the next status of
\* NOT_STARTED -> IN_PROGRESS -> FINISHED.
C18_StatusMovesForward ==
    [][\A e \in ExamIds :
           /\ (exams[e] = NoExam /\ exams'[e] # NoExam) => exams'[e].status = NOT_STARTED
           /\ exams[e] # NoExam =>
                  /\ exams'[e] # NoExam
                  /\ StatusRank(exams'[e].status) >= StatusRank(exams[e].status)
                  /\ StatusRank(exams'[e].status) <= StatusRank(exams[e].status) + 1
           /\ (last_call'.op = "update_answer" /\ last_call'.exam_id = e
                   /\ last_call'.outcome = "ok")
                  => exams'[e].status = IN_PROGRESS]_vars

C18_Witness ==
    /\ last_call = [op |-> "finalize_exam", exam_id |-> 1, outcome |-> "ok"]
    /\ exams[1].status = FINISHED
    /\ Len(exams[1].questions) = 2
    /\ exams[1].total_correct_answers = 1
    /\ exams[1].total_wrong_answers = 1

----------------------------------------------------------------------------
(* Properties of the parse on texts *)

\* C16: every JSON draft text the parse accepts is also accepted between
\* code-fence markers (triple backticks with or without a language tag before
\* it, triple backticks after it, whitespace around), with an equal draft.
C16_FencedParsesAlike ==
    (parsed.plain.done /\ parsed.fenced.done /\ parsed.plain.ok) =>
        /\ parsed.fenced.ok
        /\ parsed.fenced.draft = parsed.plain.draft

C16_Witness ==
    /\ response_content = <<"T", "{", "T", "}">>
    /\ fence.open = Backticks \o <<"p", "y">>
    /\ fence.lead = <<"\n">>
    /\ fence.gap = <<"\n">>
    /\ parsed.plain.ok
    /\ parsed.fenced.done /\ parsed.fenced.ok
    /\ parsed.fenced.draft # NoDraft
    /\ parsed.fenced.draft.correct_alternative = <<"C">>

----------------------------------------------------------------------------
(* Further properties of one generation run *)

\* C21: once a stage has set the stage field to FAILED, the field stays
\* FAILED for the rest of the run and the recorded error stays set.
C21_FailedIsAbsorbing ==
    [][wf[1].stage = "failed" =>
           /\ wf'[1].stage = "failed"
           /\ wf'[1].error_message # None]_vars

\* C22: when the validation completion fails on every attempt while a draft
\* exists, the run ends with stage FAILED and generate_question returns
\* success = false with the validation stage's error and without the draft.
C22_ValidationFailureFails ==
    LET w == wf[1] IN
    (Returned(w) /\ w.validation = "failed") =>
        /\ w.generated_question # NoDraft
        /\ w.stage = "failed"
        /\ ~w.result.success
        /\ ~w.result.raised
        /\ w.result.generated_question = NoDraft
        /\ w.result.error # None
        /\ w.result.error[1] = "Erro na validacao da questao"
        /\ Len(w.result.error) >= 2

C22_Witness ==
    LET w == wf[1] IN
    /\ Returned(w) /\ w.validation = "failed"
    /\ w.research = "ok" /\ w.generation = "ok"
    /\ WellFormedDraft(w.generated_question)
    /\ w.route = "complete"
    /\ w.result.error = <<"Erro na validacao da questao", "Timeout na requisicao para Groq">>

\* C25: when the generation completion succeeded but its text did not parse,
\* the run issues no further completion call (the generation call was its
\* only activation of the retrying invoker), stores no draft, and
\* generate_question returns success = false.
C25_ParseFailureNotRetried ==
    LET w == wf[1] IN
    w.parse_failed =>
        /\ llm[1].pc = "idle"
        /\ llm[1].calls = 0
        /\ llm[1].runs = 1
        /\ w.generated_question = NoDraft
        /\ w.validation \in {"none", "nodraft"}
        /\ Returned(w) => (~w.result.success /\ w.result.generated_question = NoDraft)

C25_Witness ==
    LET w == wf[1] IN
    /\ Returned(w) /\ w.parse_failed /\ w.research = "ok"
    /\ total_usage = 1
    /\ ~w.result.success

\* C26: every generate_question call returns, given that each external call
\* returns or fails; the run issues at most one search call and at most
\* max_retries completion calls in each of its at most two stages that call
\* the completion service (2 x 3 with the defaults).
C26_RunTerminates ==
    /\ [](/\ wf[1].search_calls <= 1
          /\ llm[1].max_retries \in {0, DefaultMaxRetries}
          /\ llm[1].calls <= llm[1].max_retries
          /\ Len(llm[1].used) <= llm[1].calls
          /\ llm[1].runs <= 2
          /\ total_usage <= 2 * DefaultMaxRetries)
    /\ (wf[1].node = "research_node") ~> Returned(wf[1])

C26_Witness ==
    /\ Returned(wf[1])
    /\ wf[1].search_calls = 1
    /\ wf[1].generation = "ok"
    /\ wf[1].validation = "failed"
    /\ llm[1].runs = 2
    /\ total_usage = 2 * DefaultMaxRetries

\* two returned runs had the same inputs and the same search and generation
\* responses, and both validation completions succeeded
SameUpToValidationText(a, b) ==
    /\ Returned(a) /\ Returned(b)
    /\ a.max_refinements = b.max_refinements
    /\ a.research = b.research
    /\ a.context_research = b.context_research
    /\ a.generation = b.generation
    /\ a.generated_question = b.generated_question
    /\ a.validation = "ok" /\ b.validation = "ok"

\* C23: two runs that differ only in the text of a successful validation
\* response return identical results and take the same transitions.
C23_ValidationTextIgnored ==
    SameUpToValidationText(wf[1], wf[2]) =>
        /\ wf[1].result = wf[2].result
        /\ wf[1].route = wf[2].route
        /\ wf[1].stage = wf[2].stage
        /\ wf[1].refinement_count = wf[2].refinement_count
        /\ wf[1].refine_runs = wf[2].refine_runs

C23_Witness ==
    /\ SameUpToValidationText(wf[1], wf[2])
    /\ wf[1].validation_feedback = <<"APROVADA">>
    /\ wf[2].validation_feedback = <<"PROBLEMAS IDENTIFICADOS">>
    /\ wf[1].result.success /\ wf[2].result.success
    /\ wf[2].route = "complete"

OwnStateOnly(r) ==
    LET w == wf[r] IN
    /\ w.node # "idle" => w.max_refinements = r - 1
    /\ w.context_research \in {<<>>, OwnNotes(r)}
    /\ w.generated_question \in {NoDraft, ParsedDraft([shape |-> "object", data |-> OwnData(r)])}
    /\ w.validation_feedback \in {<<>>} \cup OwnValContents(r)
    /\ w.generation = "none" => w.generated_question = NoDraft
    /\ w.refinement_count = 0
    /\ Returned(w) =>
          /\ w.result = ResultOf(w)
          /\ w.result.success =>
                 w.result.generated_question.title = <<"T", Tag(r)>>
          /\ ~w.result.success => w.result.error = w.error_message

\* C27: two generate_question calls in flight together never read or write
\* each other's workflow state: a step of one call leaves the other call's
\* workflow state and invoker state unchanged, each call's state and result
\* hold only its own inputs and responses, and the agent's own fields are
\* never written.
C27_RunsIsolated ==
    /\ [](\A r \in TwoRuns : OwnStateOnly(r))
    /\ [][/\ \A r \in TwoRuns :
               (wf'[r] # wf[r] \/ llm'[r] # llm[r]) =>
                   (wf'[3 - r] = wf[3 - r] /\ llm'[3 - r] = llm[3 - r])
          /\ search_tool' = search_tool]_vars

\* request 1 has returned its own question while request 2, started before
\* request 1 generated it, awaits the answer to its validation prompt
C27_Witness ==
    /\ Returned(wf[1]) /\ wf[1].result.success
    /\ wf[1].result.generated_question.title = <<"T", "1">>
    /\ wf[2].node = "validation_wait" /\ llm[2].pc = "await"
    /\ wf[2].generated_question.title = <<"T", "2">>
    /\ wf[2].context_research = OwnNotes(2)
    /\ Len(llm[2].used) = 2

\* C28: for a rotator over unique credentials, between calls the usage counts
\* of any two credentials differ by at most one, and total_usage is the number
\* of get_next_token calls made since construction or the last reset_stats.
\* get_current_token and get_token_stats read the state and leave it as it is.
C28_UsageBalanced ==
    (groq_token_manager = "installed" /\ IsUnique(tokens) /\ thr[1].pc = "idle") =>
        /\ \A x, y \in DOMAIN token_usage_count :
               token_usage_count[x] - token_usage_count[y] <= 1
        /\ get_token_stats.total_usage = thr[1].since
        /\ DOMAIN token_usage_count = Range(tokens)

C28_Witness ==
    /\ groq_token_manager = "installed" /\ IsUnique(tokens) /\ thr[1].pc = "idle"
    /\ Len(tokens) = 3
    /\ thr[1].calls = 3
    /\ thr[1].since = 2
    /\ token_usage_count[tokens[1]] = 0
    /\ current_token = tokens[3]

\* C29: once an exam is FINISHED, its stored answers, is_correct flags, status
\* and totals never change again, whatever the interleaving of the reads and
\* writes of concurrent update_answer and finalize_exam requests.
C29_FinishedIsFrozen ==
    [][\A e \in ExamIds :
           (exams[e] # NoExam /\ exams[e].status = FINISHED) =>
               /\ exams'[e] # NoExam
               /\ exams'[e].questions = exams[e].questions
               /\ exams'[e].status = exams[e].status
               /\ exams'[e].total_correct_answers = exams[e].total_correct_answers
               /\ exams'[e].total_wrong_answers = exams[e].total_wrong_answers]_vars

\* the questions of a stored exam whose answer, uppercased, is the correct one
CorrectlyAnswered(doc) ==
    {i \in 1..Len(doc.questions) :
         /\ doc.questions[i].user_answer # None
         /\ upper(doc.questions[i].user_answer) = doc.questions[i].correct_answer}

\* C30: after update_answer calls and a successful finalize_exam made one at
\* a time, total_correct_answers + total_wrong_answers = total_questions and
\* total_correct_answers is the number of questions whose stored answer,
\* uppercased, equals the stored correct answer.
C30_TotalsAddUp ==
    \A e \in ExamIds :
        (exams[e] # NoExam /\ exams[e].status = FINISHED) =>
            /\ exams[e].total_correct_answers + exams[e].total_wrong_answers
                   = exams[e].total_questions
            /\ exams[e].total_questions = Len(exams[e].questions)
            /\ exams[e].total_correct_answers = Cardinality(CorrectlyAnswered(exams[e]))

C30_Witness ==
    /\ last_call = [op |-> "finalize_exam", exam_id |-> 1, outcome |-> "ok"]
    /\ exams[1].status = FINISHED
    /\ exams[1].total_questions = 2
    /\ exams[1].total_correct_answers = 1
    /\ exams[1].total_wrong_answers = 1
    /\ exams[1].questions[1].user_answer = <<"A">>
    /\ exams[1].questions[2].user_answer = <<>>

====
